---- MODULE Spec2Model ----
(***************************************************************************)
(* Model of the noa content pipeline: the relevance pipeline               *)
(* (src/src/lib/news.ts), the content generator and publisher              *)
(* (src/src/lib/gpt.ts), the price fetch and the price cache               *)
(* (src/src/lib/metal-prices.ts), the cycle orchestrator (the cron POST    *)
(* handler, src/unnamed/part_000), the settings and metal-prices routes    *)
(* (src/src/app/api/settings/route.ts) and the save of the settings form   *)
(* (src/src/components/bot-settings.tsx).                                  *)
(*                                                                         *)
(* Strings that are cut, trimmed or measured are sequences of              *)
(* one-character strings, so that length, trim, substring and              *)
(* concatenation are computed as the JavaScript does.  Values that travel  *)
(* through JSON are tagged records, so that typeof, truthiness, ?. , ||    *)
(* and ?? are computed as the JavaScript does.                             *)
(*                                                                         *)
(* The handlers run on one event loop: a handler gives way to another only *)
(* at an await, and a synchronous file read or write is one step.  A file  *)
(* write that throws leaves the file as it was.                            *)
(***************************************************************************)
EXTENDS Integers, Sequences, FiniteSets, TLC

(***************************************************************************)
(* Program constants.                                                      *)
(***************************************************************************)
\* allNews takes slice(0, 10) of each feed
FeedLimit == 10
\* the loop breaks when relevantArticles.length >= 3
RelevantCap == 3
\* generatedText.length > 280, content.length > 280
TweetLimit == 280
\* generatedText.substring(0, 277)
TruncateAt == 277
\* settings.postFrequency < 5 || settings.postFrequency > 120
MinFrequency == 5
MaxFrequency == 120
\* the postFrequency a settings record takes when none is given
DefaultFrequency == 30

(***************************************************************************)
(* Bounds of the model.                                                    *)
(***************************************************************************)
\* the longest feed an upstream returns
MaxFeedLen == 12
\* how far beyond the tweet limit the longest generated text goes
MaxExcess == 20
\* the number of cycles run one after another
MaxCycles == 2
\* the number of settings POST requests
MaxPosts == 2

VARIABLES
    openaiKey,          \* process.env.OPENAI_API_KEY is set
    newsKey,            \* process.env.NEWS_DATA_API is set
    upstream,           \* what the two feeds and the oracle will answer
    cyclePc,            \* position of the cron POST handler ("none": not invoked)
    pricePc,            \* state of the fetchMetalPrices promise
    priceEvents,        \* how the price fetch and the cache write went
    metalPrices,        \* the handler's metalPrices
    metalPricesResult,  \* the handler's metalPricesResult
    cacheFile,          \* data/metal-prices.json
    newsData,           \* the handler's newsData
    newsResult,         \* the handler's newsResult
    tweetData,          \* the argument handed to generateAndPostTweet
    tweetResult,        \* the handler's tweetResult
    response,           \* the HTTP response of the handler
    newsPc,             \* position of fetchRelevantNews
    cryptoFetch,        \* state of the fetchCryptoNews promise
    marketFetch,        \* state of the fetchMarketNews promise
    cryptoNews,         \* first element of the Promise.all result
    marketNews,         \* second element of the Promise.all result
    allNews,            \* the combined list
    idx,                \* 1-based position of the for-of loop in allNews
    relevantArticles,   \* the accepted articles
    inFlight,           \* oracle classification requests awaiting an answer
    classified,         \* articles isRelevantToPreciousMetals was called on, in call order
    verdict,            \* what the last isRelevantToPreciousMetals call returned
    classifyRaised,     \* an isRelevantToPreciousMetals call rejected (threw)
    relevantNews,       \* what fetchRelevantNews returned
    postPc,             \* position of generateAndPostTweet / postTweet
    generationCalls,    \* number of generateTweetText invocations
    generatedText,      \* response.output_text of the generation oracle
    tweetText,          \* what generateTweetText returned
    postTweetCalls,     \* number of postTweet invocations
    content,            \* the argument postTweet was called with
    xClients,           \* number of X clients createXClient has built
    postRequests,       \* texts handed to client.posts.create, in order
    postOutcome,        \* how generateAndPostTweet / postTweet settled
    botSettings,        \* the settings generateTweetText read
    prompt,             \* the prompt generateTweetText built
    clock,              \* the time: the number of the current cycle
    cacheRead,          \* the last response of GET /api/metal-prices
    settingsFile,       \* data/bot-settings.json
    settingsPc,         \* position of the settings POST handler
    settingsBody,       \* what request.json() of the settings POST resolves to
    settingsPosts,      \* number of settings POST requests so far
    settingsResponse,   \* the last response of POST /api/settings
    settingsGet         \* the last response of GET /api/settings

newsVars == <<newsPc, cryptoFetch, marketFetch, cryptoNews, marketNews, allNews,
              idx, relevantArticles, inFlight, classified, verdict,
              classifyRaised, relevantNews>>

postVars == <<postPc, generationCalls, generatedText, tweetText, postTweetCalls,
              content, xClients, postRequests, postOutcome, botSettings, prompt>>

envVars == <<openaiKey, newsKey, upstream>>

cycleVars == <<cyclePc, pricePc, priceEvents, metalPrices, metalPricesResult,
               cacheFile, newsData, newsResult, tweetData, tweetResult, response>>

\* the clock and the two other routes of the server
hostVars == <<clock, cacheRead, settingsFile, settingsPc, settingsBody,
              settingsPosts, settingsResponse, settingsGet>>

vars == <<envVars, hostVars, cycleVars, newsVars, postVars>>

(***************************************************************************)
(* JavaScript string and array helpers.                                    *)
(***************************************************************************)
Min(a, b) == IF a < b THEN a ELSE b

Whitespace == {" ", "\n", "\t"}

SetMin(S) == CHOOSE x \in S : \A y \in S : x <= y

SetMax(S) == CHOOSE x \in S : \A y \in S : x >= y

\* String.prototype.trim: from the first to the last non-whitespace character
trim(s) ==
    LET inked == {i \in 1..Len(s) : s[i] \notin Whitespace}
    IN  IF inked = {} THEN <<>> ELSE SubSeq(s, SetMin(inked), SetMax(inked))

UpperOf(c) ==
    CASE c = "y" -> "Y"
      [] c = "e" -> "E"
      [] c = "s" -> "S"
      [] c = "n" -> "N"
      [] c = "o" -> "O"
      [] c = "u" -> "U"
      [] c = "l" -> "L"
      [] OTHER   -> c

\* String.prototype.toUpperCase
toUpperCase(s) == IF s = <<>> THEN <<>> ELSE [i \in 1..Len(s) |-> UpperOf(s[i])]

\* Array.prototype.slice(0, n) and String.prototype.substring(0, n)
slice(s, n) == SubSeq(s, 1, Min(n, Len(s)))

(***************************************************************************)
(* JavaScript values: what a JSON document, a provider response or a       *)
(* request body can hold.                                                  *)
(***************************************************************************)
Undefined == [type |-> "undefined"]
JsNull == [type |-> "null"]
Num(n) == [type |-> "number", num |-> n]
Str(s) == [type |-> "string", str |-> s]
Obj(props) == [type |-> "object", props |-> props]

\* new Date().toISOString() at time t: a non-empty string
Iso(t) == [type |-> "string", str |-> "iso", at |-> t]

\* v?.k
Get(v, k) ==
    IF v.type = "object" /\ k \in DOMAIN v.props THEN v.props[k] ELSE Undefined

Truthy(v) ==
    CASE v.type = "object" -> TRUE
      [] v.type = "number" -> v.num # 0
      [] v.type = "string" -> v.str # ""
      [] OTHER -> FALSE

\* a || b
Or(a, b) == IF Truthy(a) THEN a ELSE b

\* a ?? b
Coalesce(a, b) == IF a.type \in {"null", "undefined"} THEN b ELSE a

\* typeof v
typeof(v) == IF v.type = "null" THEN "object" ELSE v.type

(***************************************************************************)
(* Files of the data directory.  The text of a file is represented by the  *)
(* JSON value it denotes; Unparseable is a text JSON.parse rejects,        *)
(* Unreadable a file readFileSync fails on.                                *)
(***************************************************************************)
Unparseable == [type |-> "unparseable"]
Unreadable == [type |-> "unreadable"]

Absent == [exists |-> FALSE, json |-> Undefined]
File(json) == [exists |-> TRUE, json |-> json]

\* JSON.stringify: a property whose value is undefined is left out
RECURSIVE stringify(_)
stringify(v) ==
    IF v.type = "object"
    THEN Obj([k \in {p \in DOMAIN v.props : v.props[p].type # "undefined"} |->
                 stringify(v.props[k])])
    ELSE v

\* readFileSync followed by JSON.parse: throws on a missing or unreadable
\* file and on a text that is no JSON
readJson(file) ==
    IF ~file.exists \/ file.json.type \in {"unparseable", "unreadable"}
    THEN [threw |-> TRUE, value |-> Undefined]
    ELSE [threw |-> FALSE, value |-> file.json]

(***************************************************************************)
(* Upstream answers: the two NewsData.io feeds and the classification      *)
(* oracle.  An article is identified by its feed and its position in the   *)
(* feed's results.  upstream.relevant is the set of articles the oracle    *)
(* answers YES to; on every other article the oracle answers something     *)
(* else or fails.                                                          *)
(***************************************************************************)
Article(f, i) == [feed |-> f, n |-> i]

\* title, content and description of an article as the feed delivers them; one
\* article of the market feed comes without any text
textOf(a) ==
    IF a = Article("market", 4)
    THEN [title |-> Str(""), content |-> Undefined, description |-> Undefined]
    ELSE [title |-> Str("headline"), content |-> Undefined,
          description |-> Str("summary")]

Feed(f, len) == [i \in 1..len |-> Article(f, i)]

FeedLengths == {0, 1, 4} \cup (FeedLimit .. MaxFeedLen)

\* positions of a feed at which an article may be one the oracle answers YES to
RelevantPositions == {1, 4, FeedLimit, FeedLimit + 1}

FeedFailure == [ok |-> FALSE, results |-> <<>>]

FeedResponses(f, lengths) ==
    {FeedFailure} \cup {[ok |-> TRUE, results |-> Feed(f, n)] : n \in lengths}

Candidates(resp) ==
    {resp.results[i] : i \in RelevantPositions \cap (1..Len(resp.results))}

Upstreams(lengths) ==
    UNION {
        {[crypto |-> c, market |-> m, relevant |-> R] :
            R \in SUBSET (Candidates(c) \cup Candidates(m))} :
        c \in FeedResponses("crypto", lengths),
        m \in FeedResponses("market", lengths)}

\* response.output_text values of the classification oracle
YesReplies == {<<"Y", "E", "S">>, <<" ", "y", "e", "s", "\n">>}

OtherReplies ==
    {<<"N", "O">>, <<"n", "o", " ">>, <<"N", "U", "L", "L">>, <<>>,
     <<"Y", "E", "S", ".">>}

\* what client.responses.create can do for an article: answer or throw
OracleAnswers(article) ==
    IF article \in upstream.relevant
    THEN {[threw |-> FALSE, output_text |-> t] : t \in YesReplies}
    ELSE {[threw |-> FALSE, output_text |-> t] : t \in OtherReplies}
         \cup {[threw |-> TRUE, output_text |-> <<>>]}

(***************************************************************************)
(* isRelevantToPreciousMetals (news.ts).                                   *)
(***************************************************************************)
\* initializeGPT throws when the key is missing
initializeGPTThrows == ~openaiKey

\* the try block: the tri-state verdict from the oracle's answer
isRelevantVerdict(answer) ==
    IF answer.threw
    THEN "null"
    ELSE LET result == toUpperCase(trim(answer.output_text))
         IN  IF result = <<"Y", "E", "S">> THEN "true"
             ELSE IF result = <<"N", "O">> THEN "false"
             ELSE "null"

(***************************************************************************)
(* fetchRelevantNews (news.ts).                                            *)
(***************************************************************************)
Null == [kind |-> "null"]
Pending == [kind |-> "pending"]
List(items) == [kind |-> "list", items |-> items]
Raised(e) == [kind |-> "raised", error |-> e]

\* an outer handler that throws the error on to the caller
fetchRelevantNewsCatch_Rethrow(e) == Raised(e)

\* the catch around the body of fetchRelevantNews: whatever was thrown,
\* the function returns null
fetchRelevantNewsCatch(e) == Null

\* fetchCryptoNews / fetchMarketNews reject on a missing key or a failed call
feedRejects(resp) == ~newsKey \/ ~resp.ok

\* the resolved value of fetchXNews().catch(() => [])
feedOrEmpty(resp) == IF feedRejects(resp) THEN <<>> ELSE resp.results

\* a combined list without the slices
combine_NoSlice(crypto, market) == crypto \o market

\* [...cryptoNews.slice(0, 10), ...marketNews.slice(0, 10)]
combine(crypto, market) == slice(crypto, FeedLimit) \o slice(market, FeedLimit)

\* a cap that is off by one
capReached_OffByOne(accepted) == Len(accepted) > RelevantCap

\* the break at the head of the loop body
capReached(accepted) == Len(accepted) >= RelevantCap

\* an acceptance test that only excludes a NO
accept_UnlessNo(accepted, article, v) ==
    IF v # "false" THEN Append(accepted, article) ELSE accepted

\* if (isRelevant === true) relevantArticles.push(article)
accept(accepted, article, v) ==
    IF v = "true" THEN Append(accepted, article) ELSE accepted

\* the value returned after the loop
loopResult(accepted) == IF Len(accepted) = 0 THEN Null ELSE List(accepted)

\* the crypto feed awaited before the market feed is asked for
StartFeeds_Sequential ==
    /\ newsPc = "idle"
    /\ cyclePc \in {"none", "news"}
    /\ newsPc' = "feeds"
    /\ cryptoFetch' = "pending"
    /\ UNCHANGED <<envVars, hostVars, cycleVars, postVars, marketFetch, cryptoNews, marketNews,
                   allNews, idx, relevantArticles, inFlight, classified, verdict,
                   classifyRaised, relevantNews>>

\* Promise.all([...]): both fetchers are called before the first await
StartFeeds ==
    /\ newsPc = "idle"
    /\ cyclePc \in {"none", "news"}
    /\ newsPc' = "feeds"
    /\ cryptoFetch' = "pending"
    /\ marketFetch' = "pending"
    /\ UNCHANGED <<envVars, hostVars, cycleVars, postVars, cryptoNews, marketNews,
                   allNews, idx, relevantArticles, inFlight, classified, verdict,
                   classifyRaised, relevantNews>>

SettleCrypto ==
    /\ newsPc = "feeds"
    /\ cryptoFetch = "pending"
    /\ cryptoFetch' = IF feedRejects(upstream.crypto) THEN "failed" ELSE "ok"
    /\ cryptoNews' = feedOrEmpty(upstream.crypto)
    /\ UNCHANGED <<envVars, hostVars, cycleVars, postVars, newsPc, marketFetch,
                   marketNews, allNews, idx, relevantArticles, inFlight,
                   classified, verdict, classifyRaised, relevantNews>>

SettleMarket ==
    /\ newsPc = "feeds"
    /\ marketFetch = "pending"
    /\ marketFetch' = IF feedRejects(upstream.market) THEN "failed" ELSE "ok"
    /\ marketNews' = feedOrEmpty(upstream.market)
    /\ UNCHANGED <<envVars, hostVars, cycleVars, postVars, newsPc, cryptoFetch,
                   cryptoNews, allNews, idx, relevantArticles, inFlight,
                   classified, verdict, classifyRaised, relevantNews>>

\* the await of Promise.all resumes; allNews is built; the empty list returns null
CombineFeeds ==
    /\ newsPc = "feeds"
    /\ cryptoFetch # "pending"
    /\ marketFetch # "pending"
    /\ allNews' = combine(cryptoNews, marketNews)
    /\ IF Len(allNews') = 0
       THEN /\ newsPc' = "returned"
            /\ relevantNews' = Null
            /\ idx' = idx
       ELSE /\ newsPc' = "loop"
            /\ relevantNews' = relevantNews
            /\ idx' = 1
    /\ UNCHANGED <<envVars, hostVars, cycleVars, postVars, cryptoFetch, marketFetch,
                   cryptoNews, marketNews, relevantArticles, inFlight, classified,
                   verdict, classifyRaised>>

\* one loop iteration up to the await: isRelevantToPreciousMetals(article) is
\* called; initializeGPT runs outside its try block, so a missing key rejects
\* the call, and fetchRelevantNews's own catch returns null
ClassifyCall ==
    /\ newsPc = "loop"
    /\ idx <= Len(allNews)
    /\ ~capReached(relevantArticles)
    /\ classified' = Append(classified, allNews[idx])
    /\ IF initializeGPTThrows
       THEN /\ classifyRaised' = TRUE
            /\ newsPc' = "returned"
            /\ relevantNews' = fetchRelevantNewsCatch("MissingOpenAIKey")
            /\ inFlight' = inFlight
       ELSE /\ classifyRaised' = classifyRaised
            /\ newsPc' = "classify"
            /\ relevantNews' = relevantNews
            /\ inFlight' = inFlight + 1
    /\ UNCHANGED <<envVars, hostVars, cycleVars, postVars, cryptoFetch, marketFetch,
                   cryptoNews, marketNews, allNews, idx, relevantArticles, verdict>>

\* the oracle answers or fails; the verdict decides acceptance
ClassifyReturn ==
    /\ newsPc = "classify"
    /\ \E answer \in OracleAnswers(allNews[idx]) :
          /\ verdict' = isRelevantVerdict(answer)
          /\ relevantArticles' = accept(relevantArticles, allNews[idx], verdict')
    /\ inFlight' = inFlight - 1
    /\ idx' = idx + 1
    /\ newsPc' = "loop"
    /\ UNCHANGED <<envVars, hostVars, cycleVars, postVars, cryptoFetch, marketFetch,
                   cryptoNews, marketNews, allNews, classified, classifyRaised,
                   relevantNews>>

\* the loop ends: list exhausted or cap reached
LoopExit ==
    /\ newsPc = "loop"
    /\ (idx > Len(allNews) \/ capReached(relevantArticles))
    /\ relevantNews' = loopResult(relevantArticles)
    /\ newsPc' = "returned"
    /\ UNCHANGED <<envVars, hostVars, cycleVars, postVars, cryptoFetch, marketFetch,
                   cryptoNews, marketNews, allNews, idx, relevantArticles, inFlight,
                   classified, verdict, classifyRaised>>

(***************************************************************************)
(* Texts the generation oracle may produce: leading spaces, a body of      *)
(* letters that differ from position to position, trailing spaces.         *)
(***************************************************************************)
Letters == <<"a", "b", "c", "d", "e", "f", "g">>

Spaces(n) == IF n = 0 THEN <<>> ELSE [i \in 1..n |-> " "]

Body(n) == IF n = 0 THEN <<>> ELSE [i \in 1..n |-> Letters[(i % 7) + 1]]

Text(lead, body, trail) == Spaces(lead) \o Body(body) \o Spaces(trail)

BodyLengths ==
    {0, 1, TruncateAt, TweetLimit - 2, TweetLimit, TweetLimit + 1,
     TweetLimit + MaxExcess}

Texts ==
    {Text(l, b, t) : l \in {0, 2}, b \in BodyLengths, t \in {0, 3, TweetLimit + 1}}

\* a few of them, for a whole cycle
CycleTexts ==
    {Text(0, 0, 0), Text(0, 0, 3), Text(2, 5, 3), Text(0, TweetLimit + MaxExcess, 0),
     Text(0, 0, TweetLimit + 1)}

\* what the generation oracle can do: answer with a text or throw
Answers(texts) ==
    {[threw |-> FALSE, output_text |-> t] : t \in texts}
    \cup {[threw |-> TRUE, output_text |-> <<>>]}

(***************************************************************************)
(* generateTweetText, postTweet, generateAndPostTweet (gpt.ts).            *)
(***************************************************************************)
\* an ellipsis of four characters
Ellipsis_Four == <<".", ".", ".", ".">>

Ellipsis == <<".", ".", ".">>

Failure(e) == [settled |-> TRUE, threw |-> TRUE, error |-> e]
Success == [settled |-> TRUE, threw |-> FALSE, error |-> "none"]
Unsettled == [settled |-> FALSE, threw |-> FALSE, error |-> "none"]

\* a cut at the limit itself, before the ellipsis is appended
truncate_AtLimit(text) ==
    IF Len(text) > TweetLimit
    THEN slice(text, TweetLimit) \o Ellipsis
    ELSE trim(text)

\* generatedText.length > 280 ? generatedText.substring(0, 277) + '...'
\*                            : generatedText.trim()
truncate(text) ==
    IF Len(text) > TweetLimit
    THEN slice(text, TruncateAt) \o Ellipsis
    ELSE trim(text)

\* checks that forget the trim and let one character too many through
postTweetRejects_NoTrim(c) ==
    IF c = <<>> THEN "EmptyContent"
    ELSE IF Len(c) > TweetLimit + 1 THEN "ContentTooLong"
    ELSE "none"

\* the two checks postTweet makes before createXClient
postTweetRejects(c) ==
    IF c = <<>> \/ Len(trim(c)) = 0 THEN "EmptyContent"
    ELSE IF Len(c) > TweetLimit THEN "ContentTooLong"
    ELSE "none"

\* postTweet(c) up to its await: the checks, createXClient, client.posts.create
PostTweetEnter(c) ==
    /\ postTweetCalls' = postTweetCalls + 1
    /\ content' = c
    /\ IF postTweetRejects(c) # "none"
       THEN /\ postPc' = "returned"
            /\ postOutcome' = Failure(postTweetRejects(c))
            /\ UNCHANGED <<xClients, postRequests>>
       ELSE \E credentials \in BOOLEAN :
               IF ~credentials
               THEN /\ postPc' = "returned"
                    /\ postOutcome' = Failure("MissingXCredentials")
                    /\ UNCHANGED <<xClients, postRequests>>
               ELSE /\ postPc' = "publishing"
                    /\ xClients' = xClients + 1
                    /\ postRequests' = Append(postRequests, c)
                    /\ UNCHANGED postOutcome

\* the record getBotSettings and the settings GET fall back to
DefaultSettings ==
    Obj([postFrequency |-> Num(DefaultFrequency), tone |-> Str("casual"),
         personality |-> Str("")])

\* getBotSettings: the parsed file as it is, the defaults when reading throws
getBotSettings(file) ==
    IF readJson(file).threw THEN DefaultSettings ELSE readJson(file).value

\* a test for the article itself instead of its text
hasNews_ArticlePresent(data) == data.article.feed # "none"

\* data?.title || data?.content || data?.description; nothing the handler
\* passes has a description property
hasNews(data) == Truthy(Or(Or(data.title, data.content), Undefined))

\* value?.toLocaleString('en-US', ...) || 'N/A'
localeAmount(value) ==
    IF value.type = "number"
    THEN [type |-> "string", str |-> "amount", of |-> value.num]
    ELSE Str("N/A")

\* the price paragraph of the prompt, empty without data.metalPrices
metalPricesInfo(data) ==
    IF Truthy(data.metalPrices)
    THEN Obj([gold |-> localeAmount(Get(data.metalPrices, "gold")),
              silver |-> localeAmount(Get(data.metalPrices, "silver")),
              lastUpdated |-> IF Truthy(Get(data.metalPrices, "lastUpdated"))
                              THEN Get(data.metalPrices, "lastUpdated")
                              ELSE Str("N/A")])
    ELSE Str("")

\* prompt = hasNews ? <news template> : <price template>
promptOf(data) ==
    [template |-> IF hasNews(data) THEN "news-grounded" ELSE "price-only",
     prices |-> metalPricesInfo(data)]

NoPrompt == [template |-> "none", prices |-> Undefined]

\* generateAndPostTweet calls generateTweetText; initializeGPT throws without a
\* key, otherwise the settings are read, the prompt is built and the request
\* awaits the oracle
GenerateEnter(data) ==
    /\ postPc = "idle"
    /\ generationCalls' = generationCalls + 1
    /\ IF initializeGPTThrows
       THEN /\ postPc' = "returned"
            /\ postOutcome' = Failure("MissingOpenAIKey")
            /\ UNCHANGED <<botSettings, prompt>>
       ELSE /\ postPc' = "generating"
            /\ botSettings' = getBotSettings(settingsFile)
            /\ prompt' = promptOf(data)
            /\ UNCHANGED postOutcome
    /\ UNCHANGED <<envVars, hostVars, newsVars, generatedText, tweetText, postTweetCalls,
                   content, xClients, postRequests>>

\* generateAndPostTweet called on its own, with neither article nor prices
GenerateCall ==
    /\ cyclePc = "none"
    /\ GenerateEnter([title |-> Undefined, content |-> Undefined,
                      metalPrices |-> JsNull])
    /\ UNCHANGED cycleVars

\* the oracle settles; the text is cut to the limit; an empty text throws;
\* otherwise generateAndPostTweet goes on into postTweet
GenerateReturn(answers) ==
    /\ postPc = "generating"
    /\ \E answer \in answers :
          IF answer.threw
          THEN /\ postPc' = "returned"
               /\ postOutcome' = Failure("GenerationFailed")
               /\ UNCHANGED <<generatedText, tweetText, postTweetCalls, content,
                              xClients, postRequests>>
          ELSE /\ generatedText' = answer.output_text
               /\ tweetText' = truncate(answer.output_text)
               /\ IF tweetText' = <<>>
                  THEN /\ postPc' = "returned"
                       /\ postOutcome' = Failure("EmptyGeneration")
                       /\ UNCHANGED <<postTweetCalls, content, xClients,
                                      postRequests>>
                  ELSE PostTweetEnter(tweetText')
    /\ UNCHANGED <<envVars, hostVars, cycleVars, newsVars, generationCalls,
                   botSettings, prompt>>

\* the platform accepts or rejects the post
PublishReturn ==
    /\ postPc = "publishing"
    /\ postPc' = "returned"
    /\ \E accepted \in BOOLEAN :
          postOutcome' = IF accepted THEN Success ELSE Failure("PostFailed")
    /\ UNCHANGED <<envVars, hostVars, cycleVars, newsVars, generationCalls,
                   generatedText, tweetText, postTweetCalls, content, xClients,
                   postRequests, botSettings, prompt>>

\* postTweet called on its own
PostTweetDirect ==
    /\ postPc = "idle"
    /\ cyclePc = "none"
    /\ \E c \in Texts : PostTweetEnter(c)
    /\ UNCHANGED <<envVars, hostVars, cycleVars, newsVars, generationCalls,
                   generatedText, tweetText, botSettings, prompt>>

InitPost ==
    /\ postPc = "idle"
    /\ generationCalls = 0
    /\ generatedText = <<>>
    /\ tweetText = <<>>
    /\ postTweetCalls = 0
    /\ content = <<>>
    /\ xClients = 0
    /\ postRequests = <<>>
    /\ postOutcome = Unsettled
    /\ botSettings = Undefined
    /\ prompt = NoPrompt

InitNews ==
    /\ newsPc = "idle"
    /\ cryptoFetch = "idle"
    /\ marketFetch = "idle"
    /\ cryptoNews = <<>>
    /\ marketNews = <<>>
    /\ allNews = <<>>
    /\ idx = 0
    /\ relevantArticles = <<>>
    /\ inFlight = 0
    /\ classified = <<>>
    /\ verdict = "none"
    /\ classifyRaised = FALSE
    /\ relevantNews = Pending

\* the environment of one call: without a news key the feeds are not
\* contacted, without an oracle key the oracle is not
Environments(lengths) ==
    {e \in [openaiKey : BOOLEAN, newsKey : BOOLEAN, upstream : Upstreams(lengths)] :
        /\ ~e.newsKey => (e.upstream.crypto = FeedFailure /\ e.upstream.market = FeedFailure)
        /\ ~e.openaiKey => e.upstream.relevant = {}}

(***************************************************************************)
(* Answers of the price provider.                                          *)
(***************************************************************************)
Gold == Num(4000)
Silver == Num(50)

\* the two spellings of the instrument keys
Rates(spelling) ==
    IF spelling = "upper"
    THEN Obj([XAU |-> Gold, XAG |-> Silver])
    ELSE Obj([xau |-> Gold, xag |-> Silver])

Shaped(shape, rates) ==
    CASE shape = "data.rates" -> Obj([data |-> Obj([rates |-> rates])])
      [] shape = "data" -> Obj([data |-> rates])
      [] shape = "rates" -> Obj([rates |-> rates])
      [] OTHER -> rates

\* the four places a response carries its rates in, in both spellings
ShapedResponses ==
    {Shaped(sh, Rates(sp)) : sh \in {"data.rates", "data", "rates", "top"},
                             sp \in {"upper", "lower"}}

\* responses that carry one price or none
OtherResponses ==
    {Obj([XAG |-> Silver]),
     Obj([data |-> Obj([error |-> Obj([code |-> Num(101)])])]),
     Obj([success |-> Num(0)]),
     Undefined}

PriceResponses == ShapedResponses \cup OtherResponses

\* the responses of the single cycle
CyclePriceResponses ==
    {Shaped("data.rates", Rates("upper")), Shaped("rates", Rates("lower"))}
    \cup OtherResponses

\* what api.fetchLive can do: answer or throw
PriceAnswers(responses) ==
    {[threw |-> FALSE, result |-> r] : r \in responses}
    \cup {[threw |-> TRUE, result |-> Undefined]}

(***************************************************************************)
(* fetchMetalPrices, readMetalPricesCache, writeMetalPricesCache           *)
(* (metal-prices.ts).                                                      *)
(***************************************************************************)
\* a chain that knows the first place only
ratesOf_DataRatesOnly(result) ==
    IF Truthy(Get(Get(result, "data"), "rates"))
    THEN Get(Get(result, "data"), "rates")
    ELSE JsNull

\* the if / else-if chain that locates the rates in the response
ratesOf(result) ==
    IF Truthy(Get(Get(result, "data"), "rates"))
    THEN Get(Get(result, "data"), "rates")
    ELSE IF Truthy(Get(result, "data")) /\ typeof(Get(result, "data")) = "object"
    THEN Get(result, "data")
    ELSE IF Truthy(Get(result, "rates"))
    THEN Get(result, "rates")
    ELSE IF /\ Truthy(result)
            /\ typeof(result) = "object"
            /\ \/ Truthy(Get(result, "XAU"))
               \/ Truthy(Get(result, "XAG"))
               \/ Truthy(Get(result, "xau"))
               \/ Truthy(Get(result, "xag"))
    THEN result
    ELSE JsNull

\* a snapshot that takes the rates as they come, without the null
snapshotOf_NoNull(rates, now) ==
    Obj([lastUpdated |-> Iso(now),
         prices |-> Obj([XAU |-> Or(Get(rates, "XAU"), Get(rates, "xau")),
                         XAG |-> Or(Get(rates, "XAG"), Get(rates, "xag"))]),
         base |-> Str("USD")])

\* the canonical snapshot built from the rates
snapshotOf(rates, now) ==
    Obj([lastUpdated |-> Iso(now),
         prices |-> Obj([XAU |-> Or(Or(Get(rates, "XAU"), Get(rates, "xau")), JsNull),
                         XAG |-> Or(Or(Get(rates, "XAG"), Get(rates, "xag")), JsNull)]),
         base |-> Str("USD")])

\* fetchMetalPrices: rejects without a key, when the provider call throws, and
\* when no rates are found
fetchMetalPrices(key, answer, now) ==
    IF ~key THEN [threw |-> TRUE, error |-> "MissingMetalKey", value |-> Undefined]
    ELSE IF answer.threw
    THEN [threw |-> TRUE, error |-> "ProviderFailed", value |-> Undefined]
    ELSE IF ~Truthy(ratesOf(answer.result))
    THEN [threw |-> TRUE, error |-> "InvalidResponse", value |-> Undefined]
    ELSE [threw |-> FALSE, error |-> "none",
          value |-> snapshotOf(ratesOf(answer.result), now)]

DEFAULT_CACHE ==
    Obj([lastUpdated |-> JsNull,
         prices |-> Obj([XAU |-> JsNull, XAG |-> JsNull]),
         base |-> Str("USD")])

\* the body of the try block of readMetalPricesCache: reading and parsing
\* throw as readJson does, cache.lastUpdated throws on null
cacheOf(file) ==
    IF ~file.exists THEN [threw |-> FALSE, value |-> DEFAULT_CACHE]
    ELSE IF readJson(file).threw \/ readJson(file).value.type = "null"
    THEN [threw |-> TRUE, value |-> Undefined]
    ELSE LET cache == readJson(file).value
         IN  [threw |-> FALSE,
              value |-> Obj([lastUpdated |-> Or(Get(cache, "lastUpdated"), JsNull),
                             prices |-> Obj([XAU |-> Coalesce(Get(Get(cache, "prices"), "XAU"), JsNull),
                                             XAG |-> Coalesce(Get(Get(cache, "prices"), "XAG"), JsNull)]),
                             base |-> Or(Get(cache, "base"), Str("USD"))])]

\* a reader without the catch
readMetalPricesCache_NoCatch(file) == cacheOf(file)

\* readMetalPricesCache: the catch turns every throw into the default
readMetalPricesCache(file) ==
    IF cacheOf(file).threw
    THEN [threw |-> FALSE, value |-> DEFAULT_CACHE]
    ELSE cacheOf(file)

\* a write that leaves out the timestamp
writeMetalPricesCache_NoStamp(prices) ==
    File(Obj([prices |-> Get(prices, "prices"), base |-> Get(prices, "base")]))

\* writeMetalPricesCache, when writeFileSync succeeds
writeMetalPricesCache(prices) == File(stringify(prices))

(***************************************************************************)
(* The cron POST handler (part_000).                                       *)
(***************************************************************************)
\* the time of the cycle, for new Date().toISOString()
Now == clock

NoArticle == [feed |-> "none", n |-> 0]

\* prices taken from the persisted cache when the fetch left none
pricesFor_FromCache(mp) ==
    LET known == IF Truthy(mp) THEN mp ELSE readMetalPricesCache(cacheFile).value
    IN  Obj([gold |-> Get(Get(known, "prices"), "XAU"),
             silver |-> Get(Get(known, "prices"), "XAG"),
             lastUpdated |-> Get(known, "lastUpdated")])

\* metalPrices ? {gold, silver, lastUpdated} : null
pricesFor(mp) ==
    IF ~Truthy(mp)
    THEN JsNull
    ELSE Obj([gold |-> Get(Get(mp, "prices"), "XAU"),
              silver |-> Get(Get(mp, "prices"), "XAG"),
              lastUpdated |-> Get(mp, "lastUpdated")])

\* the success and the failure record of the price branch
priceSuccess(mp) ==
    [success |-> TRUE, error |-> "none", lastUpdated |-> Get(mp, "lastUpdated"),
     prices |-> Get(mp, "prices")]

priceFailure(e) ==
    [success |-> FALSE, error |-> e, lastUpdated |-> Undefined, prices |-> Undefined]

\* if (relevantNews && relevantNews.length > 0)
hasRelevantNews(news) == news.kind = "list" /\ Len(news.items) > 0

\* newsData built from the last accepted article
newsDataOf_Last(news, mp) ==
    IF hasRelevantNews(news)
    THEN [article |-> news.items[Len(news.items)],
          title |-> textOf(news.items[Len(news.items)]).title,
          content |-> Or(Or(textOf(news.items[Len(news.items)]).content,
                            textOf(news.items[Len(news.items)]).description),
                         Str("")),
          metalPrices |-> pricesFor(mp)]
    ELSE JsNull

\* newsData built from the first article
newsDataOf(news, mp) ==
    IF hasRelevantNews(news)
    THEN [article |-> news.items[1],
          title |-> textOf(news.items[1]).title,
          content |-> Or(Or(textOf(news.items[1]).content,
                            textOf(news.items[1]).description), Str("")),
          metalPrices |-> pricesFor(mp)]
    ELSE JsNull

\* a news record that forgets the null check
newsResultOf_NoNullCheck(news) ==
    [success |-> news.kind # "pending", articlesFound |-> 0, article |-> NoArticle,
     message |-> "none", error |-> "none"]

newsResultOf(news) ==
    IF hasRelevantNews(news)
    THEN [success |-> TRUE, articlesFound |-> Len(news.items),
          article |-> news.items[1], message |-> "none", error |-> "none"]
    ELSE [success |-> FALSE, articlesFound |-> 0, article |-> NoArticle,
          message |-> "No relevant precious metals news found", error |-> "none"]

\* the record of the news branch's catch
newsFailure(e) ==
    [success |-> FALSE, articlesFound |-> 0, article |-> NoArticle,
     message |-> "none", error |-> e]

\* a fallback that hands over no prices when there is no article
tweetDataOf_NoPrices(nd, mp) ==
    IF nd # JsNull
    THEN nd
    ELSE [article |-> NoArticle, title |-> Undefined, content |-> Undefined,
          metalPrices |-> JsNull]

\* newsData || { metalPrices: ... }
tweetDataOf(nd, mp) ==
    IF nd # JsNull
    THEN nd
    ELSE [article |-> NoArticle, title |-> Undefined, content |-> Undefined,
          metalPrices |-> pricesFor(mp)]

tweetResultOf(outcome) ==
    IF outcome.threw
    THEN [success |-> FALSE, error |-> outcome.error]
    ELSE [success |-> TRUE, error |-> "none"]

\* the awaits of the handler resume only when the awaited call has settled
priceSettled == pricePc = "fetched"
\* a handler that does not await fetchRelevantNews
newsSettled_NoAwait == TRUE

newsSettled == newsPc = "returned"

\* a handler that resumes only when the post went through
postSettled_OnSuccess == postPc = "returned" /\ ~postOutcome.threw

postSettled == postPc = "returned"

NoFetch == [threw |-> FALSE, error |-> "none", value |-> Undefined]

\* api.fetchLive has not answered
NoAnswer == [threw |-> TRUE, result |-> Undefined]

\* await fetchMetalPrices()
PriceFetchCall ==
    /\ cyclePc = "price"
    /\ pricePc = "idle"
    /\ pricePc' = "fetching"
    /\ UNCHANGED <<envVars, hostVars, newsVars, postVars, cyclePc, priceEvents, metalPrices,
                   metalPricesResult, cacheFile, newsData, newsResult, tweetData,
                   tweetResult, response>>

\* the fetch settles: without a key the provider is not contacted
PriceFetchSettle(answers) ==
    /\ pricePc = "fetching"
    /\ pricePc' = "fetched"
    /\ \E key \in BOOLEAN, answer \in answers :
          /\ ~key => answer = NoAnswer
          /\ priceEvents' = [priceEvents EXCEPT
                                !.answer = answer,
                                !.fetch = fetchMetalPrices(key, answer, Now)]
    /\ UNCHANGED <<envVars, hostVars, newsVars, postVars, cyclePc, metalPrices,
                   metalPricesResult, cacheFile, newsData, newsResult, tweetData,
                   tweetResult, response>>

\* the rest of the price branch: the cache write and the branch's record
PriceBranch ==
    /\ cyclePc = "price"
    /\ priceSettled
    /\ pricePc' = "returned"
    /\ cyclePc' = "news"
    /\ LET fetched == priceEvents.fetch
       IN  IF fetched.threw
           THEN /\ metalPricesResult' = priceFailure(fetched.error)
                /\ UNCHANGED <<metalPrices, cacheFile, priceEvents>>
           ELSE /\ metalPrices' = fetched.value
                /\ \E written \in BOOLEAN :
                      /\ priceEvents' = [priceEvents EXCEPT !.write =
                                            IF written THEN "ok" ELSE "failed"]
                      /\ IF written
                         THEN /\ cacheFile' = writeMetalPricesCache(fetched.value)
                              /\ metalPricesResult' = priceSuccess(fetched.value)
                         ELSE /\ cacheFile' = cacheFile
                              /\ metalPricesResult' = priceFailure("WriteFailed")
    /\ UNCHANGED <<envVars, hostVars, newsVars, postVars, newsData, newsResult, tweetData,
                   tweetResult, response>>

\* the news branch after fetchRelevantNews has returned
NewsBranch ==
    /\ cyclePc = "news"
    /\ newsSettled
    /\ cyclePc' = "post"
    /\ newsData' = newsDataOf(relevantNews, metalPrices)
    /\ newsResult' = IF relevantNews.kind = "raised"
                     THEN newsFailure(relevantNews.error)
                     ELSE newsResultOf(relevantNews)
    /\ UNCHANGED <<envVars, hostVars, newsVars, postVars, pricePc, priceEvents, metalPrices,
                   metalPricesResult, cacheFile, tweetData, tweetResult, response>>

\* the post branch up to the await of generateAndPostTweet
PostBranchCall ==
    /\ cyclePc = "post"
    /\ tweetData' = tweetDataOf(newsData, metalPrices)
    /\ GenerateEnter(tweetData')
    /\ UNCHANGED <<cyclePc, pricePc, priceEvents, metalPrices, metalPricesResult,
                   cacheFile, newsData, newsResult, tweetResult, response>>

\* the post branch's record and the response
Respond ==
    /\ cyclePc = "post"
    /\ postSettled
    /\ cyclePc' = "done"
    /\ tweetResult' = tweetResultOf(postOutcome)
    /\ response' = [status |-> 200, tweet |-> tweetResult',
                    metalPrices |-> metalPricesResult, news |-> newsResult]
    /\ UNCHANGED <<envVars, hostVars, newsVars, postVars, pricePc, priceEvents, metalPrices,
                   metalPricesResult, cacheFile, newsData, newsResult, tweetData>>

NoResponse == [status |-> 0]

InitCycle ==
    /\ pricePc = "idle"
    /\ priceEvents = [answer |-> NoAnswer, fetch |-> NoFetch, write |-> "none"]
    /\ metalPrices = JsNull
    /\ metalPricesResult = JsNull
    /\ cacheFile = Absent
    /\ newsData = JsNull
    /\ newsResult = JsNull
    /\ tweetData = JsNull
    /\ tweetResult = JsNull
    /\ response = NoResponse

(***************************************************************************)
(* The cron handler is invoked again after it has answered; the handler's   *)
(* variables and the calls counted are those of the new invocation.        *)
(***************************************************************************)
Invoke ==
    /\ cyclePc = "done"
    /\ clock < MaxCycles
    /\ clock' = clock + 1
    /\ cyclePc' = "price"
    /\ pricePc' = "idle"
    /\ priceEvents' = [answer |-> NoAnswer, fetch |-> NoFetch, write |-> "none"]
    /\ metalPrices' = JsNull
    /\ metalPricesResult' = JsNull
    /\ newsData' = JsNull
    /\ newsResult' = JsNull
    /\ tweetData' = JsNull
    /\ tweetResult' = JsNull
    /\ response' = NoResponse
    /\ newsPc' = "idle"
    /\ cryptoFetch' = "idle"
    /\ marketFetch' = "idle"
    /\ cryptoNews' = <<>>
    /\ marketNews' = <<>>
    /\ allNews' = <<>>
    /\ idx' = 1
    /\ relevantArticles' = <<>>
    /\ inFlight' = 0
    /\ verdict' = "none"
    /\ relevantNews' = Pending
    /\ postPc' = "idle"
    /\ classified' = <<>>
    /\ classifyRaised' = FALSE
    /\ postPc' = "idle"
    /\ generationCalls' = 0
    /\ generatedText' = <<>>
    /\ tweetText' = <<>>
    /\ postTweetCalls' = 0
    /\ content' = <<>>
    /\ xClients' = 0
    /\ postRequests' = <<>>
    /\ postOutcome' = Unsettled
    /\ botSettings' = Undefined
    /\ prompt' = NoPrompt
    /\ UNCHANGED <<envVars, cacheFile, cacheRead, settingsFile, settingsPc,
                   settingsBody, settingsPosts, settingsResponse, settingsGet>>

(***************************************************************************)
(* GET /api/metal-prices (route.ts).                                       *)
(***************************************************************************)
MetalPricesGet ==
    /\ cacheRead' = IF readMetalPricesCache(cacheFile).threw
                    THEN [status |-> 500, body |-> Undefined]
                    ELSE [status |-> 200, body |-> readMetalPricesCache(cacheFile).value]
    /\ UNCHANGED <<envVars, cycleVars, newsVars, postVars, clock, settingsFile,
                   settingsPc, settingsBody, settingsPosts, settingsResponse,
                   settingsGet>>

(***************************************************************************)
(* GET and POST /api/settings (route.ts).                                  *)
(***************************************************************************)
validTones == <<"casual", "professional", "witty", "friendly", "formal">>

\* Array.prototype.includes
includes(list, s) == \E i \in 1..Len(list) : list[i] = s

\* request bodies: each field is left out, well typed or wrongly typed
FrequencyInputs ==
    {Undefined, Str("60"), Num(MinFrequency - 2), Num(MinFrequency),
     Num(MaxFrequency), Num(MaxFrequency + 1)}

ToneInputs ==
    {Undefined, Num(7), Str("sarcastic")} \cup {Str(validTones[i]) : i \in 1..Len(validTones)}

PersonalityInputs == {Undefined, Num(1), Str("bold")}

RequestBody(frequency, tone, personality) ==
    LET given == [postFrequency |-> frequency, tone |-> tone, personality |-> personality]
    IN  Obj([k \in {f \in DOMAIN given : given[f] # Undefined} |-> given[k]])

\* the settings form: the tones its select offers, the frequency it always
\* sends, and the body handleSave posts
FormFrequency == 150

formTones == <<"casual", "professional", "witty", "friendly", "formal">>

handleSave(tone, personality) ==
    RequestBody(Num(FormFrequency), Str(tone), Str(personality))

FormBodies ==
    {handleSave(formTones[i], p) : i \in 1..Len(formTones), p \in {"", "bold"}}

\* a JSON object, the JSON null, a text request.json() rejects, or what the form
\* posts
SettingsBodies ==
    {RequestBody(f, t, p) : f \in FrequencyInputs, t \in ToneInputs, p \in PersonalityInputs}
    \cup {JsNull, Unparseable}
    \cup FormBodies

\* a merge: a field the body does not give keeps the stored value
settingsOf_KeepStored(body) ==
    Obj([postFrequency |-> IF typeof(Get(body, "postFrequency")) = "number"
                           THEN Get(body, "postFrequency")
                           ELSE Get(getBotSettings(settingsFile), "postFrequency"),
         tone |-> IF typeof(Get(body, "tone")) = "string"
                  THEN Get(body, "tone")
                  ELSE Get(getBotSettings(settingsFile), "tone"),
         personality |-> IF typeof(Get(body, "personality")) = "string"
                         THEN Get(body, "personality")
                         ELSE Get(getBotSettings(settingsFile), "personality")])

\* the record built from the body: a field of the wrong type takes the default
settingsOf(body) ==
    Obj([postFrequency |-> IF typeof(Get(body, "postFrequency")) = "number"
                           THEN Get(body, "postFrequency")
                           ELSE Num(DefaultFrequency),
         tone |-> IF typeof(Get(body, "tone")) = "string"
                  THEN Get(body, "tone")
                  ELSE Str("casual"),
         personality |-> IF typeof(Get(body, "personality")) = "string"
                         THEN Get(body, "personality")
                         ELSE Str("")])

\* a range check that lets the values just below the range through
frequencyRejected_Lenient(settings) ==
    \/ Get(settings, "postFrequency").num < MinFrequency - 2
    \/ Get(settings, "postFrequency").num > MaxFrequency

frequencyRejected(settings) ==
    \/ Get(settings, "postFrequency").num < MinFrequency
    \/ Get(settings, "postFrequency").num > MaxFrequency

\* a handler that accepts every tone
toneRejected_Never(settings) == FALSE

toneRejected(settings) == ~includes(validTones, Get(settings, "tone").str)

\* a write that leaves the file cut short
writeSettings_Torn(settings) == File(Unparseable)

\* writeFileSync(SETTINGS_PATH, JSON.stringify(settings)), when it succeeds
writeSettings(settings) == File(stringify(settings))

\* a GET that answers the defaults whatever the file holds
readSettings_Defaults(file) == DefaultSettings

\* the settings the GET answers: the parsed file, the defaults when reading throws
readSettings(file) ==
    IF readJson(file).threw THEN DefaultSettings ELSE readJson(file).value

NoSettingsResponse == [status |-> 0, error |-> "none", settings |-> Undefined]

Rejection(code, message) == [status |-> code, error |-> message, settings |-> Undefined]

\* the GET handler runs without suspending; the response is kept with the
\* moment it was given at: the POST requests received, the POST handler's position
SettingsGet ==
    /\ settingsGet' = [status |-> 200, error |-> "none",
                       settings |-> readSettings(settingsFile),
                       posts |-> settingsPosts, during |-> settingsPc]
    /\ UNCHANGED <<envVars, cycleVars, newsVars, postVars, clock, cacheRead,
                   settingsFile, settingsPc, settingsBody, settingsPosts,
                   settingsResponse>>

\* the POST handler up to await request.json()
SettingsPostCall ==
    /\ settingsPc = "idle"
    /\ settingsPosts < MaxPosts
    /\ settingsPc' = "parsing"
    /\ settingsPosts' = settingsPosts + 1
    /\ settingsBody' = Undefined
    /\ settingsResponse' = NoSettingsResponse
    /\ UNCHANGED <<envVars, cycleVars, newsVars, postVars, clock, cacheRead,
                   settingsFile, settingsGet>>

\* the POST handler after the body has arrived: the record is built, checked
\* and written, and the response is sent
SettingsPostHandle ==
    /\ settingsPc = "parsing"
    /\ settingsPc' = "idle"
    /\ \E body \in SettingsBodies :
          /\ settingsBody' = body
          /\ IF body.type \in {"unparseable", "null"}
             THEN /\ settingsResponse' = Rejection(500, "Failed to update settings")
                  /\ UNCHANGED settingsFile
             ELSE IF frequencyRejected(settingsOf(body))
             THEN /\ settingsResponse' =
                        Rejection(400, "postFrequency must be between 5 and 120")
                  /\ UNCHANGED settingsFile
             ELSE IF toneRejected(settingsOf(body))
             THEN /\ settingsResponse' =
                        Rejection(400, "tone must be one of: casual, professional, witty, friendly, formal")
                  /\ UNCHANGED settingsFile
             ELSE \E written \in BOOLEAN :
                     IF written
                     THEN /\ settingsFile' = writeSettings(settingsOf(body))
                          /\ settingsResponse' = [status |-> 200, error |-> "none",
                                                  settings |-> settingsOf(body)]
                     ELSE /\ settingsResponse' =
                                Rejection(500, "Failed to update settings")
                          /\ UNCHANGED settingsFile
    /\ UNCHANGED <<envVars, cycleVars, newsVars, postVars, clock, cacheRead,
                   settingsPosts, settingsGet>>

InitHost ==
    /\ clock = 1
    /\ cacheRead = [status |-> 0, body |-> Undefined]
    /\ settingsFile = Absent
    /\ settingsPc = "idle"
    /\ settingsBody = Undefined
    /\ settingsPosts = 0
    /\ settingsResponse = NoSettingsResponse
    /\ settingsGet = [status |-> 0, error |-> "none", settings |-> Undefined,
                      posts |-> 0, during |-> "none"]

(***************************************************************************)
(* fetchRelevantNews called on its own.                                    *)
(***************************************************************************)
InitPipeline ==
    /\ \E e \in Environments(FeedLengths) :
          /\ openaiKey = e.openaiKey
          /\ newsKey = e.newsKey
          /\ upstream = e.upstream
    /\ cyclePc = "none"
    /\ InitHost
    /\ InitCycle
    /\ InitNews
    /\ InitPost

NextPipeline ==
    \/ StartFeeds
    \/ SettleCrypto
    \/ SettleMarket
    \/ CombineFeeds
    \/ ClassifyCall
    \/ ClassifyReturn
    \/ LoopExit

SpecPipeline == InitPipeline /\ [][NextPipeline]_vars

(***************************************************************************)
(* generateAndPostTweet and postTweet called on their own.                 *)
(***************************************************************************)
NoUpstream == [crypto |-> FeedFailure, market |-> FeedFailure, relevant |-> {}]

InitCompose ==
    /\ openaiKey \in BOOLEAN
    /\ newsKey = TRUE
    /\ upstream = NoUpstream
    /\ cyclePc = "none"
    /\ InitHost
    /\ InitCycle
    /\ InitNews
    /\ InitPost

NextCompose ==
    \/ GenerateCall
    \/ GenerateReturn(Answers(Texts))
    \/ PublishReturn
    \/ PostTweetDirect

SpecCompose == InitCompose /\ [][NextCompose]_vars

(***************************************************************************)
(* One cycle: the cron POST handler is invoked once.                       *)
(***************************************************************************)
CycleFeedLengths == {0, 1, 4}

Init ==
    /\ \E e \in Environments(CycleFeedLengths) :
          /\ openaiKey = e.openaiKey
          /\ newsKey = e.newsKey
          /\ upstream = e.upstream
    /\ cyclePc = "price"
    /\ InitHost
    /\ InitCycle
    /\ InitNews
    /\ InitPost

Next ==
    \/ PriceFetchCall
    \/ PriceFetchSettle(PriceAnswers(CyclePriceResponses))
    \/ PriceBranch
    \/ StartFeeds
    \/ SettleCrypto
    \/ SettleMarket
    \/ CombineFeeds
    \/ ClassifyCall
    \/ ClassifyReturn
    \/ LoopExit
    \/ NewsBranch
    \/ PostBranchCall
    \/ GenerateReturn(Answers(CycleTexts))
    \/ PublishReturn
    \/ Respond

Spec == Init /\ [][Next]_vars

(***************************************************************************)
(* One cycle whose external calls all settle.  The feeds are empty or      *)
(* longer than the slice.  Every call made to the price provider, to a     *)
(* feed, to the classification or the generation oracle and to the         *)
(* platform eventually returns or fails, and the event loop runs every     *)
(* continuation that is ready.                                             *)
(***************************************************************************)
LiveFeedLengths == {0, MaxFeedLen}

InitLive ==
    /\ \E e \in Environments(LiveFeedLengths) :
          /\ openaiKey = e.openaiKey
          /\ newsKey = e.newsKey
          /\ upstream = e.upstream
    /\ cyclePc = "price"
    /\ InitHost
    /\ InitCycle
    /\ InitNews
    /\ InitPost

NextLive ==
    \/ PriceFetchCall
    \/ PriceFetchSettle(PriceAnswers(CyclePriceResponses))
    \/ PriceBranch
    \/ StartFeeds
    \/ SettleCrypto
    \/ SettleMarket
    \/ CombineFeeds
    \/ ClassifyCall
    \/ ClassifyReturn
    \/ LoopExit
    \/ NewsBranch
    \/ PostBranchCall
    \/ GenerateReturn(Answers({Text(0, 5, 0)}))
    \/ PublishReturn
    \/ Respond

ExternalCallsSettle ==
    /\ WF_vars(PriceFetchSettle(PriceAnswers(CyclePriceResponses)))
    /\ WF_vars(SettleCrypto)
    /\ WF_vars(SettleMarket)
    /\ WF_vars(ClassifyReturn)
    /\ WF_vars(GenerateReturn(Answers({Text(0, 5, 0)})))
    /\ WF_vars(PublishReturn)

ContinuationsRun ==
    /\ WF_vars(PriceFetchCall)
    /\ WF_vars(PriceBranch)
    /\ WF_vars(StartFeeds)
    /\ WF_vars(CombineFeeds)
    /\ WF_vars(ClassifyCall)
    /\ WF_vars(LoopExit)
    /\ WF_vars(NewsBranch)
    /\ WF_vars(PostBranchCall)
    /\ WF_vars(Respond)

SpecLive == InitLive /\ [][NextLive]_vars /\ ExternalCallsSettle /\ ContinuationsRun

(***************************************************************************)
(* Cycles one after another, with GET /api/metal-prices in between.  The   *)
(* feeds fail, so that the news branch finds nothing.                      *)
(***************************************************************************)
\* what data/metal-prices.json may hold when the server starts
CacheFiles ==
    {Absent, File(Unparseable), File(Unreadable), File(JsNull), File(Obj(<<>>)),
     File(Obj([prices |-> Obj([XAU |-> Gold])])),
     File(stringify(snapshotOf(Rates("upper"), 1)))}

InitCache ==
    /\ openaiKey \in BOOLEAN
    /\ newsKey = TRUE
    /\ upstream = NoUpstream
    /\ cyclePc = "price"
    /\ InitHost
    /\ InitCycle
    /\ InitNews
    /\ InitPost

NextCache ==
    \/ PriceFetchCall
    \/ PriceFetchSettle(PriceAnswers(PriceResponses))
    \/ PriceBranch
    \/ StartFeeds
    \/ SettleCrypto
    \/ SettleMarket
    \/ CombineFeeds
    \/ NewsBranch
    \/ PostBranchCall
    \/ GenerateReturn(Answers({Text(0, 5, 0)}))
    \/ PublishReturn
    \/ Respond
    \/ Invoke
    \/ MetalPricesGet

SpecCache == InitCache /\ [][NextCache]_vars

\* the same server started on whatever the cache file holds
InitCacheAny ==
    /\ openaiKey \in BOOLEAN
    /\ newsKey = TRUE
    /\ upstream = NoUpstream
    /\ cyclePc = "price"
    /\ InitHost
    /\ pricePc = "idle"
    /\ priceEvents = [answer |-> NoAnswer, fetch |-> NoFetch, write |-> "none"]
    /\ metalPrices = JsNull
    /\ metalPricesResult = JsNull
    /\ cacheFile \in CacheFiles
    /\ newsData = JsNull
    /\ newsResult = JsNull
    /\ tweetData = JsNull
    /\ tweetResult = JsNull
    /\ response = NoResponse
    /\ InitNews
    /\ InitPost

SpecCacheAny == InitCacheAny /\ [][NextCache]_vars

(***************************************************************************)
(* The settings endpoint, with the content generator reading the settings  *)
(* on its way to the generation request.                                   *)
(***************************************************************************)
InitSettings ==
    /\ openaiKey = TRUE
    /\ newsKey = TRUE
    /\ upstream = NoUpstream
    /\ cyclePc = "none"
    /\ InitHost
    /\ InitCycle
    /\ InitNews
    /\ InitPost

NextSettings ==
    \/ SettingsPostCall
    \/ SettingsPostHandle
    \/ SettingsGet
    \/ GenerateCall

SpecSettings == InitSettings /\ [][NextSettings]_vars

(***************************************************************************)
(* What the upstream answers make the relevance pipeline's input and       *)
(* result, stated from the environment alone.                              *)
(***************************************************************************)
Delivered(resp) == IF newsKey /\ resp.ok THEN resp.results ELSE <<>>

First(s, n) == IF Len(s) <= n THEN s ELSE [i \in 1..n |-> s[i]]

CombinedList ==
    First(Delivered(upstream.crypto), 10) \o First(Delivered(upstream.market), 10)

IsRelevant(a) == a \in upstream.relevant

RelevantInOrder == SelectSeq(CombinedList, IsRelevant)

\* number of articles answered YES among the first n classified
AcceptedAmong(n) == Cardinality({j \in 1..n : IsRelevant(classified[j])})

FeedsSettled == cryptoFetch \in {"ok", "failed"} /\ marketFetch \in {"ok", "failed"}

(***************************************************************************)
(* C1: one cycle answers 200 with the three branch outcomes, each decided  *)
(* by its own branch alone: the price outcome by the fetch and the cache   *)
(* write, the news outcome by what the pipeline returned, the post outcome *)
(* by generation and publish; no response is a 500.                        *)
(***************************************************************************)
C1_CycleReportsEveryBranch ==
    /\ response.status \in {0, 200}
    /\ cyclePc = "done" =>
          /\ response.status = 200
          /\ response.metalPrices.success =
                (~priceEvents.fetch.threw /\ priceEvents.write = "ok")
          /\ response.news.success = (relevantNews.kind = "list")
          /\ response.tweet.success = (postOutcome.settled /\ ~postOutcome.threw)
          /\ response.metalPrices = metalPricesResult
          /\ response.news = newsResult
          /\ response.tweet = tweetResult

\* price fetch failed, pipeline returned null, generation and publish succeeded
C1_Witness ==
    /\ cyclePc = "done"
    /\ priceEvents.fetch.threw
    /\ relevantNews = Null
    /\ response.status = 200
    /\ response.tweet.success
    /\ ~response.metalPrices.success
    /\ ~response.news.success

(***************************************************************************)
(* C2: the branches run one after the other, price, then news, then post;  *)
(* composition is attempted exactly once in every cycle, whatever the      *)
(* price and news outcomes.                                                *)
(***************************************************************************)
C2_PostOnceAfterPriceThenNews ==
    /\ newsPc # "idle" => pricePc = "returned"
    /\ postPc # "idle" => (pricePc = "returned" /\ newsPc = "returned")
    /\ generationCalls <= 1
    /\ postPc # "idle" => generationCalls = 1
    /\ cyclePc = "done" => generationCalls = 1

\* a finished cycle whose price and news branches both failed
C2_Witness ==
    /\ cyclePc = "done"
    /\ generationCalls = 1
    /\ ~metalPricesResult.success
    /\ ~newsResult.success

(***************************************************************************)
(* C3: fetchRelevantNews returns null or 1 to 3 articles: the first        *)
(* min(3, k) articles answered YES of the combined list (first 10 of the   *)
(* crypto feed, then first 10 of the market feed), in that order; null     *)
(* exactly when the combined list holds no such article.                   *)
(***************************************************************************)
C3_FirstRelevantInOrder ==
    newsPc = "returned" =>
        /\ relevantNews.kind \in {"null", "list"}
        /\ relevantNews = Null <=> RelevantInOrder = <<>>
        /\ relevantNews.kind = "list" =>
              /\ Len(relevantNews.items) \in 1..3
              /\ relevantNews.items = First(RelevantInOrder, 3)
              /\ \A i \in 1..Len(relevantNews.items) : IsRelevant(relevantNews.items[i])

\* more than 3 relevant articles in the combined list, a relevant article
\* beyond the 10th of the crypto feed, the third accepted from the market feed
C3_Witness ==
    /\ newsPc = "returned"
    /\ relevantNews.kind = "list"
    /\ Len(RelevantInOrder) > 3
    /\ IsRelevant(Article("crypto", 11))
    /\ relevantNews.items[3].feed = "market"

(***************************************************************************)
(* C4: at most one classification request is in flight, none is made       *)
(* before both feeds have settled, the calls follow the combined list in   *)
(* order, none is made after the third acceptance, none on an article      *)
(* beyond the 10th of a feed, and there are at most 20 of them.            *)
(***************************************************************************)
C4_SequentialClassification ==
    /\ inFlight \in {0, 1}
    /\ classified # <<>> => FeedsSettled
    /\ Len(classified) <= Len(CombinedList)
    /\ \A i \in 1..Len(classified) :
          /\ classified[i] = CombinedList[i]
          /\ classified[i].n <= 10
          /\ AcceptedAmong(i - 1) < 3
    /\ Len(classified) <= 20

\* the 20th call in flight
C4_Witness ==
    /\ Len(classified) = 20
    /\ inFlight = 1
    /\ Len(upstream.crypto.results) > 10

(***************************************************************************)
(* C5 as stated: with a feed of 12 articles whose 4th is the first         *)
(* answered YES, the pipeline makes exactly 4 classification calls.        *)
(***************************************************************************)
C5_Scenario ==
    /\ newsKey
    /\ upstream.crypto.ok
    /\ Len(upstream.crypto.results) = 12
    /\ RelevantInOrder # <<>>
    /\ RelevantInOrder[1] = Article("crypto", 4)

C5_ExactlyFourCalls ==
    (C5_Scenario /\ newsPc = "returned") => Len(classified) = 4

(***************************************************************************)
(* C5 amended: in that scenario nothing is accepted before the 4th call    *)
(* returns, the 4th call accepts the 4th article, and the pipeline goes on *)
(* classifying: it returns only at the third acceptance or when the        *)
(* combined list is exhausted, after more than 4 calls.                    *)
(***************************************************************************)
C5_FirstAcceptAtFourthCall ==
    C5_Scenario =>
        /\ (Len(classified) < 4 \/ (Len(classified) = 4 /\ inFlight = 1)) =>
              relevantArticles = <<>>
        /\ ((Len(classified) = 4 /\ inFlight = 0) \/ Len(classified) > 4) =>
              (relevantArticles # <<>> /\ relevantArticles[1] = Article("crypto", 4))
        /\ newsPc = "returned" =>
              /\ Len(classified) > 4
              /\ Len(relevantArticles) = 3 \/ Len(classified) = Len(CombinedList)
              /\ Len(relevantArticles) = 3 =>
                    classified[Len(classified)] = relevantArticles[3]

\* the scenario, returned with 3 accepted and articles left unclassified
C5_Witness ==
    /\ C5_Scenario
    /\ newsPc = "returned"
    /\ Len(relevantArticles) = 3
    /\ Len(classified) < Len(CombinedList)

(***************************************************************************)
(* C6: the two feed fetches are started together and fail independently:   *)
(* a failed feed (also for want of the news key) contributes the empty     *)
(* list and the other feed's articles are classified from its first one;   *)
(* when both fail the pipeline returns null with no classification call    *)
(* and no error.                                                           *)
(***************************************************************************)
C6_FeedsFailIndependently ==
    /\ cryptoFetch = "idle" <=> marketFetch = "idle"
    /\ cryptoFetch \in {"ok", "failed"} =>
          (cryptoFetch = "failed" <=> (~newsKey \/ ~upstream.crypto.ok))
    /\ marketFetch \in {"ok", "failed"} =>
          (marketFetch = "failed" <=> (~newsKey \/ ~upstream.market.ok))
    /\ newsPc \in {"loop", "classify", "returned"} =>
          /\ cryptoFetch = "failed" => allNews = First(Delivered(upstream.market), 10)
          /\ marketFetch = "failed" => allNews = First(Delivered(upstream.crypto), 10)
    /\ newsPc = "returned" =>
          /\ (cryptoFetch = "failed" /\ marketFetch = "ok" /\ upstream.market.results # <<>>) =>
                (classified # <<>> /\ classified[1] = Article("market", 1))
          /\ (marketFetch = "failed" /\ cryptoFetch = "ok" /\ upstream.crypto.results # <<>>) =>
                (classified # <<>> /\ classified[1] = Article("crypto", 1))
          /\ (cryptoFetch = "failed" /\ marketFetch = "failed") =>
                (relevantNews = Null /\ classified = <<>> /\ ~classifyRaised)

\* the crypto feed failed and an article of the market feed was returned
C6_Witness ==
    /\ newsPc = "returned"
    /\ cryptoFetch = "failed"
    /\ marketFetch = "ok"
    /\ relevantNews.kind = "list"
    /\ relevantNews.items[1].feed = "market"

(***************************************************************************)
(* C7 as stated: no call of isRelevantToPreciousMetals ever rejects; a     *)
(* call that cannot get the oracle's answer returns null.                  *)
(***************************************************************************)
C7_ClassifierNeverRaises ==
    /\ ~classifyRaised
    /\ (classified # <<>> /\ inFlight = 0) => verdict \in {"true", "false", "null"}

(***************************************************************************)
(* C8: the text generateTweetText returns is at most 280 characters long;  *)
(* for a raw output longer than 280 it is exactly 280 long, the first 277  *)
(* characters of the raw output followed by "...".                         *)
(***************************************************************************)
C8_TextWithinLimit ==
    tweetText # <<>> =>
        /\ Len(tweetText) <= 280
        /\ Len(generatedText) > 280 =>
              /\ Len(tweetText) = 280
              /\ \A i \in 1..277 : tweetText[i] = generatedText[i]
              /\ \A i \in 278..280 : tweetText[i] = "."

\* a raw output of 300 characters
C8_Witness ==
    /\ Len(generatedText) = 300
    /\ Len(tweetText) = 280
    /\ tweetText[277] # "."

(***************************************************************************)
(* C9 as stated: when the generation oracle's output is empty after        *)
(* trimming, composition fails with the empty-generation error, nothing is *)
(* published and the cycle's post outcome is a failure.                    *)
(***************************************************************************)
OracleAnswered ==
    /\ postPc \in {"publishing", "returned"}
    /\ postOutcome.error \notin {"MissingOpenAIKey", "GenerationFailed"}

C9_EmptyOutputFailsComposition ==
    (OracleAnswered /\ trim(generatedText) = <<>>) =>
        /\ postOutcome = Failure("EmptyGeneration")
        /\ postRequests = <<>>
        /\ cyclePc = "done" => ~tweetResult.success

(***************************************************************************)
(* C10: postTweet fails on a text that is empty after trimming and on a    *)
(* text longer than 280 characters without building the platform client    *)
(* and without a post request; whatever is requested is neither.           *)
(***************************************************************************)
C10_RejectsBeforeContact ==
    /\ (postTweetCalls > 0 /\ (trim(content) = <<>> \/ Len(content) > 280)) =>
          /\ postOutcome.settled
          /\ postOutcome.threw
          /\ postOutcome.error = (IF trim(content) = <<>> THEN "EmptyContent"
                                  ELSE "ContentTooLong")
          /\ xClients = 0
          /\ postRequests = <<>>
    /\ \A i \in 1..Len(postRequests) :
          trim(postRequests[i]) # <<>> /\ Len(postRequests[i]) <= 280

\* postTweet called with 281 characters
C10_Witness ==
    /\ postTweetCalls = 1
    /\ Len(content) = 281
    /\ trim(content) # <<>>
    /\ postOutcome.error = "ContentTooLong"
    /\ xClients = 0

(***************************************************************************)
(* What the provider's response carries, stated from the response alone:   *)
(* one of the four places holds a price under one of the four keys.        *)
(***************************************************************************)
RateKeys == {"XAU", "XAG", "xau", "xag"}

RatePlaces(result) ==
    {Get(Get(result, "data"), "rates"), Get(result, "data"), Get(result, "rates"), result}

Recognizable(result) ==
    \E place \in RatePlaces(result) : \E k \in RateKeys : Truthy(Get(place, k))

(***************************************************************************)
(* C11: when the provider answers with a response that holds no rate field *)
(* in any of the recognized places (for instance a data wrapper that holds *)
(* only an error object), fetchMetalPrices fails and the cycle writes no   *)
(* cache file.                                                             *)
(***************************************************************************)
C11_UnrecognizedResponseFails ==
    (/\ pricePc \in {"fetched", "returned"}
     /\ priceEvents.fetch.error # "MissingMetalKey"
     /\ ~priceEvents.answer.threw
     /\ ~Recognizable(priceEvents.answer.result)) =>
        /\ priceEvents.fetch.threw
        /\ priceEvents.write = "none"

(***************************************************************************)
(* C12: a response that carries the two prices in one of the four places   *)
(* (data.rates, data, rates, the top level), under upper-case or           *)
(* lower-case keys, is normalized by fetchMetalPrices to the canonical     *)
(* snapshot: the prices are the provider's XAU and XAG values, the base is *)
(* USD and the timestamp is that of the fetch.                             *)
(***************************************************************************)
C12_ShapesNormalized ==
    \A sh \in {"data.rates", "data", "rates", "top"}, sp \in {"upper", "lower"} :
        (/\ pricePc \in {"fetched", "returned"}
         /\ priceEvents.fetch.error # "MissingMetalKey"
         /\ priceEvents.answer = [threw |-> FALSE, result |-> Shaped(sh, Rates(sp))]) =>
            /\ ~priceEvents.fetch.threw
            /\ priceEvents.fetch.value =
                  Obj([lastUpdated |-> Iso(clock),
                       prices |-> Obj([XAU |-> Num(4000), XAG |-> Num(50)]),
                       base |-> Str("USD")])

\* the provider answered {data: {rates: {XAU: 4000, XAG: 50}}}
C12_Witness ==
    /\ pricePc = "returned"
    /\ priceEvents.answer.result =
          Obj([data |-> Obj([rates |-> Obj([XAU |-> Num(4000), XAG |-> Num(50)])])])
    /\ ~priceEvents.fetch.threw
    /\ Get(metalPrices, "prices") = Obj([XAU |-> Num(4000), XAG |-> Num(50)])
    /\ Get(metalPrices, "base") = Str("USD")

(***************************************************************************)
(* C13: readMetalPricesCache never throws: GET /api/metal-prices never     *)
(* answers 500, whatever the cache file holds; and when the file is        *)
(* absent, unreadable or not parseable the snapshot returned is the        *)
(* default {lastUpdated: null, prices: {XAU: null, XAG: null}, base: USD}. *)
(***************************************************************************)
C13_ReadNeverThrows ==
    /\ [](/\ cacheRead.status \in {0, 200}
          /\ ~readMetalPricesCache(cacheFile).threw)
    /\ [][cacheRead' # cacheRead =>
             /\ cacheRead'.status = 200
             /\ (~cacheFile.exists \/ cacheFile.json \in {Unparseable, Unreadable}) =>
                   cacheRead'.body =
                      Obj([lastUpdated |-> JsNull,
                           prices |-> Obj([XAU |-> JsNull, XAG |-> JsNull]),
                           base |-> Str("USD")])]_vars

\* the cache file holds a text that is no JSON, and the read answered the default
C13_Witness ==
    /\ cacheFile = File(Unparseable)
    /\ cacheRead.status = 200
    /\ cacheRead.body = DEFAULT_CACHE

(***************************************************************************)
(* C14: through any sequence of cycles that starts without a cache file,   *)
(* every snapshot fetchMetalPrices produces and every snapshot             *)
(* readMetalPricesCache returns holds both keys XAU and XAG, each a number *)
(* or null; a snapshot read has a null lastUpdated only when it is the     *)
(* default one, which is read exactly as long as no write has succeeded;   *)
(* a snapshot fetched never has a null lastUpdated.                        *)
(***************************************************************************)
BothInstruments(snapshot) ==
    /\ snapshot.type = "object"
    /\ Get(snapshot, "prices").type = "object"
    /\ \A k \in {"XAU", "XAG"} :
          /\ k \in DOMAIN Get(snapshot, "prices").props
          /\ Get(Get(snapshot, "prices"), k).type \in {"number", "null"}

C14_SnapshotsKeepBothKeys ==
    /\ cacheRead.status = 200 =>
          /\ BothInstruments(cacheRead.body)
          /\ Get(cacheRead.body, "lastUpdated") = JsNull => cacheRead.body = DEFAULT_CACHE
    /\ BothInstruments(readMetalPricesCache(cacheFile).value)
    /\ Get(readMetalPricesCache(cacheFile).value, "lastUpdated") = JsNull <=> ~cacheFile.exists
    /\ ~cacheFile.exists => readMetalPricesCache(cacheFile).value = DEFAULT_CACHE
    /\ (pricePc \in {"fetched", "returned"} /\ ~priceEvents.fetch.threw) =>
          /\ BothInstruments(priceEvents.fetch.value)
          /\ Get(priceEvents.fetch.value, "lastUpdated") = Iso(clock)
    /\ Truthy(metalPrices) => BothInstruments(metalPrices)

\* in the second cycle the cache is read and still holds the first cycle's
\* snapshot, in which only silver had a price
C14_Witness ==
    /\ clock = 2
    /\ cacheRead.status = 200
    /\ cacheRead.body = Obj([lastUpdated |-> Iso(1),
                             prices |-> Obj([XAU |-> JsNull, XAG |-> Num(50)]),
                             base |-> Str("USD")])
    /\ priceEvents.fetch.threw

(***************************************************************************)
(* A request body that gives all three fields with valid values.           *)
(***************************************************************************)
ValidBody(body) ==
    /\ body.type = "object"
    /\ DOMAIN body.props = {"postFrequency", "tone", "personality"}
    /\ Get(body, "postFrequency").type = "number"
    /\ Get(body, "postFrequency").num \in 5..120
    /\ Get(body, "tone") \in {Str("casual"), Str("professional"), Str("witty"),
                              Str("friendly"), Str("formal")}
    /\ Get(body, "personality").type = "string"

\* the last GET was answered after the last POST was, and no POST has come since
GetFollowsPost ==
    /\ settingsGet.status = 200
    /\ settingsGet.during = "idle"
    /\ settingsGet.posts = settingsPosts
    /\ settingsPosts > 0
    /\ settingsPc = "idle"

(***************************************************************************)
(* C15: a settings POST with a postFrequency in 5..120, one of the five    *)
(* tones and a personality text, once accepted, is followed by a GET that  *)
(* returns exactly the three values posted.                                *)
(***************************************************************************)
C15_PostThenGetRoundTrip ==
    (GetFollowsPost /\ ValidBody(settingsBody) /\ settingsResponse.status = 200) =>
        /\ settingsGet.settings.type = "object"
        /\ settingsGet.settings.props = settingsBody.props
        /\ settingsResponse.settings = settingsGet.settings

\* 120, formal and a personality were posted and then read back
C15_Witness ==
    /\ GetFollowsPost
    /\ settingsBody = Obj([postFrequency |-> Num(120), tone |-> Str("formal"),
                           personality |-> Str("bold")])
    /\ settingsResponse.status = 200
    /\ settingsGet.settings = Obj([postFrequency |-> Num(120), tone |-> Str("formal"),
                                   personality |-> Str("bold")])
    /\ settingsPosts = 2

(***************************************************************************)
(* The step in which the settings POST handler answers.                    *)
(***************************************************************************)
SettingsPostAnswers == settingsPc = "parsing" /\ settingsPc' = "idle"

OutOfRange(body) ==
    /\ Get(body, "postFrequency").type = "number"
    /\ Get(body, "postFrequency").num \notin 5..120

UnknownTone(body) ==
    /\ Get(body, "tone").type = "string"
    /\ Get(body, "tone").str \notin {"casual", "professional", "witty", "friendly", "formal"}

(***************************************************************************)
(* C16: a settings POST whose postFrequency is a number outside 5..120     *)
(* (3, say) or whose tone is a string outside the five tones ("sarcastic") *)
(* is answered 400 with the message that names the field, and leaves the   *)
(* settings file as it was.                                                *)
(***************************************************************************)
C16_OutOfRangeRejected ==
    [][(SettingsPostAnswers /\ (OutOfRange(settingsBody') \/ UnknownTone(settingsBody'))) =>
          /\ settingsResponse'.status = 400
          /\ settingsResponse'.error =
                (IF OutOfRange(settingsBody')
                 THEN "postFrequency must be between 5 and 120"
                 ELSE "tone must be one of: casual, professional, witty, friendly, formal")
          /\ settingsFile' = settingsFile]_vars

\* a postFrequency of 3 was refused while an earlier record stays stored
C16_Witness ==
    /\ settingsPosts = 2
    /\ settingsPc = "idle"
    /\ Get(settingsBody, "postFrequency") = Num(3)
    /\ settingsResponse.status = 400
    /\ settingsFile = File(Obj([postFrequency |-> Num(120), tone |-> Str("witty"),
                                personality |-> Str("bold")]))

(***************************************************************************)
(* A request body in which a field is given with an invalid value: a       *)
(* postFrequency that is no number or lies outside 5..120, a tone that is  *)
(* no string or none of the five, a personality that is no string.         *)
(***************************************************************************)
Given(body, field) == body.type = "object" /\ field \in DOMAIN body.props

InvalidGiven(body) ==
    \/ /\ Given(body, "postFrequency")
       /\ Get(body, "postFrequency").type # "number" \/ OutOfRange(body)
    \/ /\ Given(body, "tone")
       /\ Get(body, "tone").type # "string" \/ UnknownTone(body)
    \/ /\ Given(body, "personality")
       /\ Get(body, "personality").type # "string"

(***************************************************************************)
(* C17: a settings POST that gives a field with an invalid value (out of   *)
(* range, not in the set, or of the wrong type such as a string            *)
(* postFrequency or a numeric tone) is rejected: it is never answered 200  *)
(* with a default stored in place of the value given.                      *)
(***************************************************************************)
C17_InvalidGivenRejected ==
    (settingsPc = "idle" /\ settingsPosts > 0 /\ InvalidGiven(settingsBody)) =>
        /\ settingsResponse.status # 200
        /\ settingsResponse.settings = Undefined

(***************************************************************************)
(* C18: through any sequence of settings POSTs that starts without a       *)
(* settings file, the record stored, every record a POST or a GET answers  *)
(* with and the record the content generator reads have a postFrequency in *)
(* 5..120 and one of the five tones.                                       *)
(***************************************************************************)
WithinBounds(record) ==
    /\ record.type = "object"
    /\ Get(record, "postFrequency").type = "number"
    /\ Get(record, "postFrequency").num \in 5..120
    /\ Get(record, "tone").type = "string"
    /\ Get(record, "tone").str \in {"casual", "professional", "witty", "friendly", "formal"}

C18_SettingsStayWithinBounds ==
    /\ settingsFile.exists => WithinBounds(settingsFile.json)
    /\ settingsResponse.status = 200 => WithinBounds(settingsResponse.settings)
    /\ settingsGet.status = 200 => WithinBounds(settingsGet.settings)
    /\ postPc # "idle" => WithinBounds(botSettings)

\* after two POSTs the generator and the GET read the record of the second
C18_Witness ==
    /\ settingsPosts = 2
    /\ settingsFile.exists
    /\ postPc = "generating"
    /\ botSettings = Obj([postFrequency |-> Num(5), tone |-> Str("friendly"),
                          personality |-> Str("")])
    /\ settingsGet.settings = botSettings
    /\ settingsGet.posts = 2

(***************************************************************************)
(* The record a reader finds: the stored one, or the defaults when there   *)
(* is no file.                                                             *)
(***************************************************************************)
CompleteRecord(record) ==
    /\ record.type = "object"
    /\ DOMAIN record.props = {"postFrequency", "tone", "personality"}

StoredRecord == IF settingsFile.exists THEN settingsFile.json ELSE DefaultSettings

FetchedPrices ==
    IF priceEvents.fetch.threw
    THEN JsNull
    ELSE Obj([gold |-> Get(Get(priceEvents.fetch.value, "prices"), "XAU"),
              silver |-> Get(Get(priceEvents.fetch.value, "prices"), "XAG"),
              lastUpdated |-> Get(priceEvents.fetch.value, "lastUpdated")])

ArticleAccepted == relevantNews.kind = "list" /\ Len(relevantNews.items) > 0

ChosenArticle ==
    /\ ArticleAccepted => tweetData.article = relevantNews.items[1]
    /\ ~ArticleAccepted => tweetData.article = NoArticle

(***************************************************************************)
(* C20, as claimed: the post branch hands to composition the accepted      *)
(* article with the price data, or the price data alone when no article    *)
(* was accepted, and no price values whenever the price branch recorded a  *)
(* failure.                                                                *)
(***************************************************************************)
C20_NoPricesWhenBranchFailed ==
    tweetData # JsNull =>
        /\ ChosenArticle
        /\ metalPricesResult.success => tweetData.metalPrices = FetchedPrices
        /\ ~metalPricesResult.success => tweetData.metalPrices = JsNull

(***************************************************************************)
(* C20, amended: the post branch hands to composition the accepted article *)
(* with the price data, or the price data alone when no article was        *)
(* accepted; no price values are passed exactly when the price fetch       *)
(* failed.  When the fetch succeeded and the cache write failed, the price *)
(* branch records a failure and the fetched prices are passed all the same.*)
(***************************************************************************)
C20_InputByFallbackChain ==
    tweetData # JsNull =>
        /\ ChosenArticle
        /\ tweetData.metalPrices = FetchedPrices
        /\ tweetData.metalPrices = JsNull <=> priceEvents.fetch.threw
        /\ priceEvents.write = "failed" =>
              ~metalPricesResult.success /\ tweetData.metalPrices # JsNull

\* an article was accepted, the cache write failed, and the article goes to
\* composition with the prices fetched
C20_Witness ==
    /\ tweetData # JsNull
    /\ ArticleAccepted
    /\ tweetData.article = relevantNews.items[1]
    /\ priceEvents.write = "failed"
    /\ ~metalPricesResult.success
    /\ tweetData.metalPrices = Obj([gold |-> Num(4000), silver |-> Num(50),
                                    lastUpdated |-> Iso(1)])

\* the prompt of the cycle has been built
PromptBuilt == cyclePc \in {"post", "done"} /\ prompt.template # "none"

\* the first accepted article carries a title, a content or a description
ArticleHasText ==
    /\ ArticleAccepted
    /\ \/ Truthy(textOf(relevantNews.items[1]).title)
       \/ Truthy(textOf(relevantNews.items[1]).content)
       \/ Truthy(textOf(relevantNews.items[1]).description)

(***************************************************************************)
(* C21: as claimed, in a cycle whose prompt was built the news-grounded    *)
(* template is used if and only if the news outcome is a success, and the  *)
(* price-only template if and only if it is not.                           *)
(***************************************************************************)
C21_TemplateByArticlePresence ==
    PromptBuilt =>
        /\ prompt.template = "news-grounded" <=> newsResult.success
        /\ prompt.template = "price-only" <=> ~newsResult.success

(***************************************************************************)
(* C21, amended: exactly one template is used, and it is the news-grounded *)
(* one if and only if an article was accepted and the first accepted       *)
(* article has a non-empty title, content or description; an accepted      *)
(* article without any text gets the price-only template although the      *)
(* news outcome is a success.                                              *)
(***************************************************************************)
C21_TemplateByArticleText ==
    PromptBuilt =>
        /\ prompt.template \in {"news-grounded", "price-only"}
        /\ prompt.template = "news-grounded" <=> ArticleHasText
        /\ prompt.template = "price-only" <=> ~ArticleHasText
        /\ ArticleHasText => newsResult.success

\* an accepted article without text: news outcome success, price-only template
C21_Witness ==
    /\ cyclePc = "done"
    /\ newsResult.success
    /\ ~ArticleHasText
    /\ prompt.template = "price-only"
    /\ tweetData.article = Article("market", 4)

\* what readMetalPricesCache returns for the cache file as it is now
CacheContent == readMetalPricesCache(cacheFile).value

\* the price branch of the running cycle fetched a snapshot and wrote it
PriceBranchSucceeded ==
    /\ pricePc = "returned"
    /\ ~priceEvents.fetch.threw
    /\ priceEvents.write = "ok"

\* this step is the cache write of a price branch whose fetch succeeded
SuccessfulWrite ==
    /\ cyclePc = "price" /\ cyclePc' = "news"
    /\ ~priceEvents.fetch.threw
    /\ priceEvents'.write = "ok"

C23_FormSaveAccepted ==
    (settingsPc = "idle" /\ settingsBody \in FormBodies) =>
        /\ settingsResponse.status # 400
        /\ settingsResponse.status = 200 =>
              /\ Get(StoredRecord, "tone") = Get(settingsBody, "tone")
              /\ Get(StoredRecord, "personality") = Get(settingsBody, "personality")

\* postTweet's own checks on the content it was handed
PublisherCheckFailed == postOutcome.error \in {"EmptyContent", "ContentTooLong"}

(***************************************************************************)
(* C24: in every cycle the platform post request is issued at most once,   *)
(* only after generation succeeded (the text sent is the text              *)
(* generateTweetText returned for the oracle's output), and its text is    *)
(* non-empty after trimming and at most 280 characters long; postTweet's   *)
(* empty and over-length checks never fail on generated text.              *)
(***************************************************************************)
C24_PostRequestWellFormed ==
    /\ Len(postRequests) <= 1
    /\ \A i \in 1..Len(postRequests) :
          /\ generationCalls = 1
          /\ prompt.template # "none"
          /\ postRequests[i] = tweetText
          /\ tweetText = truncate(generatedText)
          /\ Len(trim(postRequests[i])) > 0
          /\ Len(postRequests[i]) <= TweetLimit
    /\ postTweetCalls > 0 => content = tweetText /\ tweetText # <<>>
    /\ ~PublisherCheckFailed

\* the oracle wrote 281 spaces: the cut leaves 277 of them and the ellipsis,
\* which passes both checks and is sent
C24_Witness ==
    /\ cyclePc = "done"
    /\ generatedText = Text(0, 0, TweetLimit + 1)
    /\ postRequests = <<Spaces(TruncateAt) \o Ellipsis>>
    /\ ~postOutcome.threw

\* the price paragraph a prompt has for the snapshot a fetch returned at time t
ParagraphOf(snapshot) ==
    metalPricesInfo([metalPrices |-> pricesFor(snapshot)])

(***************************************************************************)
(* C25: every price value in a cycle's prompt was fetched by the price     *)
(* branch of that same cycle.  The prompt's price paragraph is the one     *)
(* made from the snapshot this cycle's fetch returned, stamped with this   *)
(* cycle's time; when the fetch failed the prompt has no price paragraph   *)
(* and the data handed to the generator has null prices, whatever an       *)
(* earlier cycle left in the cache.                                        *)
(***************************************************************************)
C25_PromptPricesFromThisCycle ==
    PromptBuilt =>
        /\ priceEvents.fetch.threw =>
              /\ tweetData.metalPrices = JsNull
              /\ prompt.prices = Str("")
        /\ ~priceEvents.fetch.threw =>
              /\ prompt.prices = ParagraphOf(priceEvents.fetch.value)
              /\ Get(tweetData.metalPrices, "lastUpdated") = Iso(clock)

\* the second cycle's fetch failed, the cache holds the first cycle's snapshot,
\* and the prompt of the second cycle has no prices
C25_Witness ==
    /\ clock = 2
    /\ PromptBuilt
    /\ priceEvents.fetch.threw
    /\ CacheContent = snapshotOf(Rates("lower"), 1)
    /\ prompt.prices = Str("")

\* the earliest article of the combined list the oracle answers YES to
EarliestRelevant == RelevantInOrder[1]

(***************************************************************************)
(* C26: when the pipeline accepted one or more articles, the post is       *)
(* grounded in the earliest article classified relevant in the combined    *)
(* crypto-then-market list: the data handed to the generator carries that  *)
(* article's title and text and nothing of the second or third accepted    *)
(* article, which only show in the reported articlesFound count.           *)
(***************************************************************************)
C26_GroundedInFirstAccepted ==
    (cyclePc \in {"post", "done"} /\ newsResult.success) =>
        /\ RelevantInOrder # <<>>
        /\ newsData.article = EarliestRelevant
        /\ newsData.title = textOf(EarliestRelevant).title
        /\ newsData.content =
              Or(Or(textOf(EarliestRelevant).content,
                    textOf(EarliestRelevant).description), Str(""))
        /\ newsResult.article = EarliestRelevant
        /\ newsResult.articlesFound = Len(First(RelevantInOrder, 3))
        /\ tweetData # JsNull => tweetData = newsData
        /\ DOMAIN newsData = {"article", "title", "content", "metalPrices"}

\* three articles accepted, the first of them the fourth of the crypto feed
C26_Witness ==
    /\ cyclePc = "done"
    /\ newsResult.success
    /\ newsResult.articlesFound = 3
    /\ ~IsRelevant(Article("crypto", 1))
    /\ tweetData.article = Article("crypto", 4)
    /\ relevantNews.items[3] = Article("market", 4)

\* the two records the news branch makes when fetchRelevantNews returns
NewsOutcomeRecords ==
    {newsResultOf(List(items)) : items \in {First(RelevantInOrder, n) : n \in 1..3}}
    \cup {newsResultOf(Null)}

(***************************************************************************)
(* C27: fetchRelevantNews never raises to the orchestrator.  Whatever      *)
(* fails inside it (a feed, both feeds, a classification call, the oracle  *)
(* credential missing) it returns a list of accepted articles or null, so  *)
(* the cycle's news outcome is either success with an article or the "no   *)
(* relevant news found" record, never the error record of the news         *)
(* branch's catch; a failure inside always gives null unless an article    *)
(* was accepted all the same.                                              *)
(***************************************************************************)
C27_NewsNeverRaises ==
    /\ newsPc = "returned" => relevantNews.kind \in {"null", "list"}
    /\ (newsPc = "returned" /\ classifyRaised) => relevantNews = Null
    /\ (newsPc = "returned" /\ cryptoFetch = "failed" /\ marketFetch = "failed")
          => relevantNews = Null
    /\ cyclePc \in {"post", "done"} =>
          /\ newsResult.error = "none"
          /\ newsResult \in NewsOutcomeRecords
          /\ newsResult.success => newsResult.article # NoArticle
          /\ ~newsResult.success =>
                newsResult.message = "No relevant precious metals news found"

\* the oracle credential is missing, the classifier threw on the first article,
\* and the cycle reports that no relevant news was found
C27_Witness ==
    /\ cyclePc = "done"
    /\ classifyRaised
    /\ Len(classified) = 1
    /\ newsResult = newsResultOf(Null)
    /\ response.news.error = "none"

\* the POST that has just been answered was accepted
PostAccepted == settingsPc = "idle" /\ settingsResponse.status = 200

\* the default a field takes when the body does not give it
DefaultOf(field) ==
    CASE field = "postFrequency" -> Num(DefaultFrequency)
      [] field = "tone" -> Str("casual")
      [] field = "personality" -> Str("")

(***************************************************************************)
(* C28: an accepted settings POST replaces the stored record as a whole.   *)
(* The stored record has exactly the three fields; a field missing from    *)
(* the request body is stored as its default (postFrequency 30, tone       *)
(* casual, personality empty) whatever was stored before; a well-typed     *)
(* field is stored as given; and the response echoes exactly the record    *)
(* that was stored.                                                        *)
(***************************************************************************)
C28_PostReplacesWholeRecord ==
    PostAccepted =>
        /\ settingsFile.exists
        /\ CompleteRecord(settingsFile.json)
        /\ settingsResponse.settings = settingsFile.json
        /\ \A field \in {"postFrequency", "tone", "personality"} :
              /\ ~Given(settingsBody, field)
                    => Get(settingsFile.json, field) = DefaultOf(field)
              /\ (Given(settingsBody, field) /\ ~InvalidGiven(settingsBody)
                    /\ Get(settingsBody, field).type = DefaultOf(field).type)
                    => Get(settingsFile.json, field) = Get(settingsBody, field)

\* the first POST stored 5 / friendly / bold, a GET read it back, and the second
\* POST, which gives the personality only, stored 30 / casual / bold
C28_Witness ==
    /\ PostAccepted
    /\ settingsPosts = 2
    /\ settingsGet.posts = 1
    /\ settingsGet.settings = Obj([postFrequency |-> Num(5), tone |-> Str("friendly"),
                                   personality |-> Str("bold")])
    /\ settingsBody = RequestBody(Undefined, Undefined, Str("bold"))
    /\ settingsFile.json = Obj([postFrequency |-> Num(DefaultFrequency),
                                tone |-> Str("casual"), personality |-> Str("bold")])

\* the invocation has returned its response
Responded == cyclePc = "done" /\ response.status = 200

(***************************************************************************)
(* C29: if every external call eventually returns or fails, every cycle    *)
(* invocation eventually returns a response, and it never makes more than  *)
(* 20 classification calls (10 per feed).                                  *)
(***************************************************************************)
C29_CycleTerminates ==
    /\ <>Responded
    /\ [](Len(classified) <= 2 * FeedLimit)
    /\ [](Responded => inFlight = 0 /\ postPc = "returned")

\* a cycle that answered after all 20 classification calls
C29_Witness ==
    /\ Responded
    /\ Len(classified) = 2 * FeedLimit
    /\ Len(upstream.crypto.results) > FeedLimit

====
